---- MODULE Spec2Model ----
(***************************************************************************)
(* Entity / Player / Bullet / Game of fight-game-idk as a state machine.   *)
(*                                                                         *)
(* Numbers: float positions, hit points and velocities are modelled as     *)
(* integers.  A time step dt is counted in half seconds, so a velocity v   *)
(* (units per second) displaces by (v * dt) \div 2.                        *)
(*                                                                         *)
(* Memory: entities and bullets live in two heaps (ent, bul).  A bullet    *)
(* that was deleted keeps its slot in bul with st # "live"; reading it is  *)
(* a use after free.  Undefined behaviour (null dereference, dangling      *)
(* read, double delete) is modelled by the outcomes a build produces: the  *)
(* process crashes (crashed = TRUE, nothing more happens) or, for a        *)
(* dangling read, the read may also return a harmless value.               *)
(***************************************************************************)
EXTENDS Integers, Sequences, FiniteSets, TLC

VARIABLES
    ent,          \* heap of entities: id -> fields of Entity / Player
    bul,          \* heap of bullets, in allocation order (new Bullet appends)
    m_Entities,   \* Game::m_Entities, a sequence of entity ids, NULL for nullptr
    textures,     \* what LoadTexture returns for each path (fixed by the assets)
    aiming_left,  \* the file-static flag of Player.cpp
    crashed,      \* the process died on undefined behaviour
    game,         \* the Game object: m_Width, m_Height and the window it opened
    last,         \* history: the last operation, its inputs, result and event log
    hist          \* history kept by the test scenarios (starting values, pre-state)

vars == <<ent, bul, m_Entities, textures, aiming_left, crashed, game, last, hist>>

----------------------------------------------------------------------------
(* Program constants *)

PlayerHp == 300
DefaultVelocity == 100
BulletVelocity == 1000
BulletHp == 1
OutOfBounds == 5000
BulletDamage == 30
EnemyHp == 100
EnemyX == 500

(* Bounds of the model *)

\* number of bullets allocated in one run of the game
MaxBullets == 3
\* number of bullets allocated in one run of the pruning scenario
MaxOwned == 3
\* number of bullets allocated in one run of the firing scenario
MaxFired == 2
\* the player's |x| and |y| stay within this distance of where it started
\* (inputs that leave it are not drawn)
MaxPos == 0
\* number of TakeDamage calls in one run of the entity scenario
MaxCalls == 4
\* length of the collections passed to CheckCollision in the unit scenarios
MaxColl == 2
\* number of OnUpdate calls in one run of the movement scenario
MaxMoves == 2
\* number of constructions and OnUpdate calls in one run of the scenario
\* with several players
MaxSteps == 4
\* number of OnUpdate calls on the bullet of the bullet movement scenario
MaxBulletUpdates == 3
\* bullets allocated in a game whose entities overlap
MaxOverlapBullets == 2

NULL == 0
EntIds == 1..3
Keys == {"A", "D", "W", "S"}

\* the collections of entities passed to the collection form of
\* CheckCollision in the unit scenarios
Colls == UNION { [1..n -> EntIds] : n \in 0..MaxColl }
Paths == {"IDLE", "LEFT", "RIGHT", "UP", "BULLET"}

\* dt in half seconds: 0 s, 0.5 s, and a 6 s hitch
DtSet == {0, 1, 12}

\* v * dt with dt in half seconds
Mul(v, dt) == (v * dt) \div 2

Abs(n) == IF n < 0 THEN -n ELSE n

\* Two asset sets: the 80x100 textures of the Player tests, and one with
\* odd and per-direction sizes.
TestTextures == [p \in Paths |-> [w |-> 80, h |-> 100]]

OddTextures ==
    [p \in Paths |->
        CASE p = "IDLE"   -> [w |-> 81, h |-> 101]
          [] p = "LEFT"   -> [w |-> 60, h |-> 90]
          [] p = "RIGHT"  -> [w |-> 70, h |-> 95]
          [] p = "UP"     -> [w |-> 64, h |-> 64]
          [] p = "BULLET" -> [w |-> 17, h |-> 9]]

TextureTables == {TestTextures, OddTextures}

LoadTexture(path) == textures[path]

----------------------------------------------------------------------------
(* Entity *)

\* Entity::Entity: name, hp, texture; position (0,0), alive, velocity 100
NewEntity(kind, hp, tex) ==
    [kind |-> kind, hp |-> hp, alive |-> TRUE, x |-> 0, y |-> 0,
     w |-> tex.w, h |-> tex.h, vel |-> DefaultVelocity, m_Bullets |-> <<>>]

\* Player::Player: Entity(idle texture, "Player", 300.f)
NewPlayer(tex) == NewEntity("Player", PlayerHp, tex)

TakeDamageStrict(e, damage) ==
    LET d  == IF damage < 0 THEN damage * (-1) ELSE damage
        hp == e.hp - d
    IN  [e EXCEPT !.hp = hp, !.alive = IF hp < 0 THEN FALSE ELSE @]

TakeDamageNoAbs(e, damage) ==
    LET hp == e.hp - damage
    IN  [e EXCEPT !.hp = hp, !.alive = IF hp <= 0 THEN FALSE ELSE @]

\* Entity::TakeDamage
TakeDamage(e, damage) ==
    LET d  == IF damage < 0 THEN damage * (-1) ELSE damage
        hp == e.hp - d
    IN  [e EXCEPT !.hp = hp, !.alive = IF hp <= 0 THEN FALSE ELSE @]

OverlapsOpen(a, b) ==
    ~ \/ b.x + b.w <= a.x
      \/ a.x + a.w <= b.x
      \/ b.y + b.h <= a.y
      \/ a.y + a.h <= b.y

OverlapsXOnly(a, b) ==
    ~ \/ b.x + b.w < a.x
      \/ a.x + a.w < b.x

OverlapsOpenRight(a, b) ==
    ~ \/ b.x + b.w < a.x
      \/ a.x + a.w <= b.x
      \/ b.y + b.h < a.y
      \/ a.y + a.h < b.y

OverlapsOwnWidth(a, b) ==
    ~ \/ b.x + a.w < a.x
      \/ a.x + a.w < b.x
      \/ b.y + b.h < a.y
      \/ a.y + a.h < b.y

\* the four separating-axis tests of Entity::CheckCollision and
\* Bullet::CheckCollision; a, b have fields x, y, w, h
Overlaps(a, b) ==
    ~ \/ b.x + b.w < a.x
      \/ a.x + a.w < b.x
      \/ b.y + b.h < a.y
      \/ a.y + a.h < b.y

----------------------------------------------------------------------------
(* Bullet *)

\* Bullet::Bullet: Entity(bullet texture, "Bullet", 1.f), velocity, direction
\* flag and parent stored, texture width and height halved (int division)
NewBullet(parent, velocity, positiveXdirection) ==
    [x |-> 0, y |-> 0, hp |-> BulletHp, alive |-> TRUE, vel |-> velocity,
     positiveXdirection |-> positiveXdirection, parent |-> parent,
     w |-> LoadTexture("BULLET").w \div 2, h |-> LoadTexture("BULLET").h \div 2,
     st |-> "live"]

\* what is left in bul of a deleted bullet; how records how it was destroyed
Freed(b, how) == [b EXCEPT !.x = 0, !.y = 0, !.positiveXdirection = FALSE, !.st = how]

BulletOnUpdateFlipped(b, dt) ==
    IF b.positiveXdirection
    THEN [b EXCEPT !.x = @ + Mul(b.vel, dt)]
    ELSE [b EXCEPT !.x = @ - Mul(b.vel, dt)]

BulletOnUpdateFalls(b, dt) ==
    IF b.positiveXdirection
    THEN [b EXCEPT !.x = @ - Mul(b.vel, dt), !.y = @ + Mul(b.vel, dt)]
    ELSE [b EXCEPT !.x = @ + Mul(b.vel, dt)]

\* Bullet::OnUpdate
BulletOnUpdate(b, dt) ==
    IF b.positiveXdirection
    THEN [b EXCEPT !.x = @ - Mul(b.vel, dt)]
    ELSE [b EXCEPT !.x = @ + Mul(b.vel, dt)]

----------------------------------------------------------------------------
(* The operations below transform a record                                 *)
(*   S = [ent, bul, aim, crashed, res, log]                                *)
(* holding the heaps, the static aiming flag, the crash flag, the value    *)
(* returned by the last collision check and the log of events              *)
(* <<tag, a, b>> of the operation in progress.  An object reference r is   *)
(* an entity id (r > 0), a bullet -r (r < 0) or NULL.                      *)

Ev(S, tag, a, b) == [S EXCEPT !.log = Append(@, <<tag, a, b>>)]

Crash(S, tag, a, b) == [Ev(S, tag, a, b) EXCEPT !.crashed = TRUE]

----------------------------------------------------------------------------
(* Player *)

\* what the key blocks of Player::OnUpdate read and write of the player
KeyView(S, p) ==
    [aim |-> S.aim, w |-> S.ent[p].w, h |-> S.ent[p].h, x |-> S.ent[p].x, y |-> S.ent[p].y]

\* one IsKeyDown block: the aiming flag, the texture and the displacement
KeyBlock(s, held, aim, tex, dx, dy) ==
    IF held
    THEN [s EXCEPT !.aim = aim, !.w = tex.w, !.h = tex.h, !.x = @ + dx, !.y = @ + dy]
    ELSE s

KeyStore(S, p, s) ==
    [S EXCEPT !.aim = s.aim,
              !.ent[p] = [@ EXCEPT !.w = s.w, !.h = s.h, !.x = s.x, !.y = s.y]]

KeyBlocksWFirst(s, keys, d) ==
    KeyBlock(KeyBlock(KeyBlock(KeyBlock(s,
        "W" \in keys, FALSE, LoadTexture("UP"), 0, -d),
        "A" \in keys, TRUE, LoadTexture("LEFT"), -d, 0),
        "D" \in keys, FALSE, LoadTexture("RIGHT"), d, 0),
        "S" \in keys, FALSE, LoadTexture("IDLE"), 0, d)

\* the four blocks in the order A, D, W, S, each moving by d = m_Velocity * dt
KeyBlocks(s, keys, d) ==
    KeyBlock(KeyBlock(KeyBlock(KeyBlock(s,
        "A" \in keys, TRUE, LoadTexture("LEFT"), -d, 0),
        "D" \in keys, FALSE, LoadTexture("RIGHT"), d, 0),
        "W" \in keys, FALSE, LoadTexture("UP"), 0, -d),
        "S" \in keys, FALSE, LoadTexture("IDLE"), 0, d)

\* Player::OnUpdate, the four IsKeyDown blocks
OnKeys(S, p, keys, dt) ==
    KeyStore(S, p, KeyBlocks(KeyView(S, p), keys, Mul(S.ent[p].vel, dt)))

\* the spawn position: static_cast<float>(m_Texture.width / 2) + m_Position.x
SpawnPos(e) == [x |-> (e.w \div 2) + e.x, y |-> (e.h \div 2) + e.y]

\* Player::OnUpdate, the fire block
OnFire(S, p, f, mouse) ==
    IF f \/ mouse
    THEN LET n  == Len(S.bul) + 1
             b0 == NewBullet(p, BulletVelocity, S.aim)
             b  == [b0 EXCEPT !.x = SpawnPos(S.ent[p]).x, !.y = SpawnPos(S.ent[p]).y]
         IN  Ev([S EXCEPT !.bul = Append(@, b),
                          !.ent[p].m_Bullets = Append(@, n)], "Spawn", n, p)
    ELSE S

\* pos > 5000 || pos < -5000
IsOut(pos) == pos > OutOfBounds \/ pos < -OutOfBounds

\* std::remove(begin, end, b) on the first size slots of buf, then erase to
\* end: the kept values are compacted to the front, the slots behind them
\* keep what they held
EraseRemove(buf, size, b) ==
    LET kept == SelectSeq(SubSeq(buf, 1, size), LAMBDA v : v # b)
    IN  [buf  |-> [k \in 1..Len(buf) |-> IF k <= Len(kept) THEN kept[k] ELSE buf[k]],
         size |-> Len(kept)]

\* Player::OnUpdate, the pruning loop.  The range-for fixes begin and end
\* before the first iteration: slot i of the buffer is read for every i up
\* to the size the collection had then, whatever was erased meanwhile.  ub
\* is the outcome of reading a deleted bullet: TRUE, the read sees an
\* out-of-bounds x, the bullet is deleted again and the process dies;
\* FALSE, the read sees an in-bounds x and the loop goes on.
RECURSIVE PruneLoop(_, _, _, _, _, _)
RECURSIVE PruneAt(_, _, _, _, _, _, _)
\* one iteration of the pruning loop, on the bullet b read from slot i
PruneAt(S, p, buf, size, i, ub, b) ==
    IF S.bul[b].st # "live"
    THEN IF ub
         THEN PruneLoop(Crash(S, "DoubleDelete", b, i), p, buf, size, i, ub)
         ELSE PruneLoop(Ev(S, "UAF", b, i), p, buf, size, i + 1, ub)
    ELSE IF IsOut(S.bul[b].x)
         THEN PruneLoop(Ev([S EXCEPT !.bul[b] = Freed(@, "pruned")], "Prune", b, i),
                        p, EraseRemove(buf, size, b).buf, EraseRemove(buf, size, b).size,
                        i + 1, ub)
         ELSE PruneLoop(Ev(S, "Keep", b, i), p, buf, size, i + 1, ub)

PruneLoop(S, p, buf, size, i, ub) ==
    IF S.crashed \/ i > Len(buf)
    THEN [S EXCEPT !.ent[p].m_Bullets = SubSeq(buf, 1, size)]
    ELSE PruneAt(IF i > size THEN Ev(S, "PastEnd", buf[i], i) ELSE S,
                 p, buf, size, i, ub, buf[i])

\* Player::OnUpdate, the last loop: bullet->Update(dt) on every owned bullet
RECURSIVE UpdateBullets(_, _, _, _)
UpdateBullets(S, bs, k, dt) ==
    IF S.crashed \/ k > Len(bs)
    THEN S
    ELSE UpdateBullets(Ev([S EXCEPT !.bul[bs[k]] = BulletOnUpdate(@, dt)],
                          "BUpdate", bs[k], dt), bs, k + 1, dt)

\* the pruning loop over the bullets p owns when it starts
PruneOwned(S, p, ub) ==
    PruneLoop(S, p, S.ent[p].m_Bullets, Len(S.ent[p].m_Bullets), 1, ub)

\* the update loop over the bullets p owns when it starts
UpdateOwned(S, p, dt) == UpdateBullets(S, S.ent[p].m_Bullets, 1, dt)

\* Player::OnUpdate
PlayerOnUpdate(S, p, keys, f, mouse, dt, ub) ==
    UpdateOwned(PruneOwned(OnFire(OnKeys(S, p, keys, dt), p, f, mouse), p, ub), p, dt)

----------------------------------------------------------------------------
(* Collision checks *)

\* the object a reference points to
Obj(S, r) == IF r > 0 THEN S.ent[r] ELSE S.bul[-r]

DamageTwice(S, r, damage) ==
    IF r > 0
    THEN [S EXCEPT !.ent[r] = TakeDamage(TakeDamage(@, damage), damage)]
    ELSE [S EXCEPT !.bul[-r] = TakeDamage(TakeDamage(@, damage), damage)]

\* other->TakeDamage(damage)
Damage(S, r, damage) ==
    IF r > 0
    THEN [S EXCEPT !.ent[r] = TakeDamage(@, damage)]
    ELSE [S EXCEPT !.bul[-r] = TakeDamage(@, damage)]

Ret(S, v) == [S EXCEPT !.res = v]

EntityCheckCollisionNoSelfTest(S, e, other) ==
    IF other = NULL THEN Ret(Crash(S, "NullDeref", e, 0), FALSE)
    ELSE IF Overlaps(Obj(S, e), Obj(S, other))
         THEN Ret(Ev(S, "HitLog", e, other), TRUE)
         ELSE Ret(S, FALSE)

EntityCheckCollisionDamages(S, e, other) ==
    IF e = other THEN Ret(S, FALSE)
    ELSE IF other = NULL THEN Ret(Crash(S, "NullDeref", e, 0), FALSE)
    ELSE IF Overlaps(Obj(S, e), Obj(S, other))
         THEN Ret(Ev(Damage(S, other, BulletDamage), "HitLog", e, other), TRUE)
         ELSE Ret(S, FALSE)

\* Entity::CheckCollision(std::shared_ptr<Entity> other), this = e
EntityCheckCollision(S, e, other) ==
    IF e = other THEN Ret(S, FALSE)
    ELSE IF other = NULL THEN Ret(Crash(S, "NullDeref", e, 0), FALSE)
    ELSE IF Overlaps(Obj(S, e), Obj(S, other))
         THEN Ret(Ev(S, "HitLog", e, other), TRUE)
         ELSE Ret(S, FALSE)

\* Entity::CheckCollision(std::vector<std::shared_ptr<Entity>> others)
RECURSIVE EntityCheckCollisionAll(_, _, _, _)
\* if (CheckCollision(entity)) return true; else go on with the next one
EntityCheckCollisionNext(S, e, others, i) ==
    IF S.res /\ ~S.crashed
    THEN S
    ELSE EntityCheckCollisionAll(S, e, others, i + 1)

EntityCheckCollisionAll(S, e, others, i) ==
    IF S.crashed \/ i > Len(others)
    THEN Ret(S, FALSE)
    ELSE EntityCheckCollisionNext(EntityCheckCollision(S, e, others[i]), e, others, i)

BulletCheckCollisionNoParentTest(S, b, other) ==
    IF -b = other THEN Ret(S, FALSE)
    ELSE IF other = NULL THEN Ret(Crash(S, "NullDeref", -b, 0), FALSE)
    ELSE IF Overlaps(S.bul[b], Obj(S, other))
         THEN Ret(Ev([Damage(S, other, BulletDamage) EXCEPT !.bul[b] = Freed(@, "hit")],
                     "Hit", b, other), TRUE)
         ELSE Ret(S, FALSE)

\* Bullet::CheckCollision(std::shared_ptr<Entity> other), this = bullet b
BulletCheckCollision(S, b, other) ==
    IF S.bul[b].parent # NULL /\ S.bul[b].parent = other THEN Ret(S, FALSE)
    ELSE IF -b = other THEN Ret(S, FALSE)
    ELSE IF other = NULL THEN Ret(Crash(S, "NullDeref", -b, 0), FALSE)
    ELSE IF Overlaps(S.bul[b], Obj(S, other))
         THEN Ret(Ev([Damage(S, other, BulletDamage) EXCEPT !.bul[b] = Freed(@, "hit")],
                     "Hit", b, other), TRUE)
         ELSE Ret(S, FALSE)

\* Bullet::CheckCollision(std::vector<std::shared_ptr<Entity>> others)
RECURSIVE BulletCheckCollisionAll(_, _, _, _)
BulletCheckCollisionNextNoStop(S, b, others, i) ==
    BulletCheckCollisionAll(S, b, others, i + 1)

\* if (CheckCollision(entity)) return true; else go on with the next one
BulletCheckCollisionNext(S, b, others, i) ==
    IF S.res /\ ~S.crashed
    THEN S
    ELSE BulletCheckCollisionAll(S, b, others, i + 1)

BulletCheckCollisionAll(S, b, others, i) ==
    IF S.crashed \/ i > Len(others)
    THEN Ret(S, FALSE)
    ELSE BulletCheckCollisionNext(BulletCheckCollision(S, b, others[i]), b, others, i)

----------------------------------------------------------------------------
(* Game *)

\* the virtual OnUpdate: Player::OnUpdate for a player, empty otherwise
OnUpdate(S, e, keys, f, mouse, dt, ub) ==
    IF S.ent[e].kind = "Player"
    THEN PlayerOnUpdate(S, e, keys, f, mouse, dt, ub)
    ELSE S

\* Entity::Update: CommonUpdate (empty), then the virtual OnUpdate
EntityUpdate(S, e, keys, f, mouse, dt, ub) ==
    OnUpdate(Ev(S, "Update", e, dt), e, keys, f, mouse, dt, ub)

RECURSIVE FilterBulletsNoErase(_, _, _, _, _, _)
FilterBulletsNoErase(S, p, bs, k, kept, others) ==
    IF S.crashed \/ k > Len(bs) THEN S
    ELSE FilterBulletsNoErase(
            BulletCheckCollisionAll(Ev(S, "BCheck", bs[k], Len(others)), bs[k], others, 1),
            p, bs, k + 1, kept, others)

\* Game::update, the erase/remove_if over player->m_Bullets: the predicate
\* bullet->CheckCollision(m_Entities) runs once per bullet, in order, and
\* the bullets for which it returned false are kept in order
RECURSIVE FilterBullets(_, _, _, _, _, _)
FilterNextReversed(S, p, bs, k, kept, others) ==
    FilterBullets(S, p, bs, k + 1, IF S.res THEN kept ELSE <<bs[k]>> \o kept, others)

FilterNextKeepsHit(S, p, bs, k, kept, others) ==
    FilterBullets(S, p, bs, k + 1, Append(kept, bs[k]), others)

\* S is the state the predicate left for bullet bs[k]
FilterNext(S, p, bs, k, kept, others) ==
    FilterBullets(S, p, bs, k + 1, IF S.res THEN kept ELSE Append(kept, bs[k]), others)

FilterBullets(S, p, bs, k, kept, others) ==
    IF S.crashed THEN S
    ELSE IF k > Len(bs) THEN [S EXCEPT !.ent[p].m_Bullets = kept]
    ELSE FilterNext(
            BulletCheckCollisionAll(Ev(S, "BCheck", bs[k], Len(others)), bs[k], others, 1),
            p, bs, k, kept, others)

\* Game::update, the dynamic_cast<Player*> block
PlayerBullets(S, e, others) ==
    IF S.ent[e].kind = "Player"
    THEN FilterBullets(S, e, S.ent[e].m_Bullets, 1, <<>>, others)
    ELSE S

\* Game::update, the body of the loop for a non-null entity e
EntityStep(S, e, others, keys, f, mouse, dt, ub) ==
    PlayerBullets(
        EntityCheckCollisionAll(
            Ev(EntityUpdate(S, e, keys, f, mouse, dt, ub), "Check", e, Len(others)),
            e, others, 1),
        e, others)

\* Game::update, the loop over m_Entities
RECURSIVE EntityPass(_, _, _, _, _, _, _, _)
EntityPassSkipsDead(S, others, i, keys, f, mouse, dt, ub) ==
    IF S.crashed \/ i > Len(others) THEN S
    ELSE IF others[i] = NULL \/ ~S.ent[others[i]].alive
         THEN EntityPass(S, others, i + 1, keys, f, mouse, dt, ub)
         ELSE EntityPass(EntityStep(S, others[i], others, keys, f, mouse, dt, ub),
                         others, i + 1, keys, f, mouse, dt, ub)

EntityPass(S, others, i, keys, f, mouse, dt, ub) ==
    IF S.crashed \/ i > Len(others) THEN S
    ELSE IF others[i] = NULL
         THEN EntityPass(S, others, i + 1, keys, f, mouse, dt, ub)
         ELSE EntityPass(EntityStep(S, others[i], others, keys, f, mouse, dt, ub),
                         others, i + 1, keys, f, mouse, dt, ub)

RemoveDeadKeepsAll(S, others) == [S |-> S, entities |-> others]

\* Game::update, the erase/remove_if over m_Entities with !e->IsAlive()
RemoveDead(S, others) ==
    IF S.crashed THEN [S |-> S, entities |-> others]
    ELSE IF \E i \in 1..Len(others) : others[i] = NULL
         THEN [S |-> Crash(S, "NullDeref", 0, 0), entities |-> others]
         ELSE [S |-> S, entities |-> SelectSeq(others, LAMBDA e : S.ent[e].alive)]

\* Game::update
GameUpdate(S, others, keys, f, mouse, dt, ub) ==
    RemoveDead(EntityPass(S, others, 1, keys, f, mouse, dt, ub), others)

\* no window opened yet
NoWindow == <<>>

\* no Game constructed
NoGame == [m_Width |-> 0, m_Height |-> 0, window |-> NoWindow]

\* Game::Game(int height, int width, const char* title)
\*     : m_Height(height), m_Width(width), m_Title(title)
GameGame(height, width) == [m_Width |-> width, m_Height |-> height, window |-> NoWindow]

\* InitWindow(width, height, title)
InitWindow(width, height) == <<width, height>>

\* Game::run, the first statement: InitWindow(m_Width, m_Height, m_Title)
GameRunWindow(g) == [g EXCEPT !.window = InitWindow(g.m_Width, g.m_Height)]

\* TestableGame(int h = 600, int w = 800, ...) : Game(h, w, t)
TestGame == GameGame(600, 800)

\* Player::OnDraw
RECURSIVE DrawBullets(_, _, _)
DrawBullets(S, bs, k) ==
    IF k > Len(bs) THEN S ELSE DrawBullets(Ev(S, "BDraw", bs[k], 0), bs, k + 1)

OnDrawNoBullets(S, e) == S

\* the virtual OnDraw: Player::OnDraw for a player, empty otherwise
OnDraw(S, e) ==
    IF S.ent[e].kind = "Player" THEN DrawBullets(S, S.ent[e].m_Bullets, 1) ELSE S

\* Game::draw; entity->Draw() is CommonDraw then the virtual OnDraw
RECURSIVE GameDraw(_, _, _)
GameDraw(S, others, i) ==
    IF S.crashed \/ i > Len(others) THEN S
    ELSE IF others[i] = NULL THEN Crash(S, "NullDeref", 0, i)
    ELSE GameDraw(OnDraw(Ev(S, "Draw", others[i], 0), others[i]), others, i + 1)

----------------------------------------------------------------------------
(* State machine *)

Cur == [ent |-> ent, bul |-> bul, aim |-> aiming_left, crashed |-> FALSE,
        res |-> FALSE, log |-> <<>>]

Op(name, a, b, keys, f, mouse, dt, S) ==
    [op |-> name, a |-> a, b |-> b, keys |-> keys, f |-> f, mouse |-> mouse,
     dt |-> dt, res |-> S.res, log |-> S.log]

Players == {e \in EntIds : ent[e].kind = "Player"}

Near(e, e0) == Abs(e.x - e0.x) <= MaxPos /\ Abs(e.y - e0.y) <= MaxPos

\* the inputs the model draws keep every player that is updated within
\* MaxPos of its place and the number of allocated bullets within maxb
InBounds(ps, in, dt, maxb) ==
    /\ (in.f \/ in.mouse) => Len(bul) + Cardinality(ps) <= maxb
    /\ \A p \in ps : Near(OnKeys(Cur, p, in.keys, dt).ent[p], ent[p])

Commit(S, entities, op) ==
    /\ ent' = S.ent
    /\ bul' = S.bul
    /\ aiming_left' = S.aim
    /\ crashed' = S.crashed
    /\ m_Entities' = entities
    /\ last' = op
    /\ UNCHANGED <<textures, game>>

NoOp == [op |-> "init", a |-> 0, b |-> 0, keys |-> {}, f |-> FALSE,
         mouse |-> FALSE, dt |-> 0, res |-> FALSE, log |-> <<>>]

\* Game.run up to the loop, or a Game filled by a test: a Player at the
\* origin, an Enemy at (500, 0), a second Entity left of the player
InitEnt(hp2) ==
    [e \in EntIds |->
        CASE e = 1 -> NewPlayer(LoadTexture("IDLE"))
          [] e = 2 -> [NewEntity("Entity", hp2, LoadTexture("IDLE")) EXCEPT !.x = EnemyX]
          [] e = 3 -> [NewEntity("Entity", EnemyHp, LoadTexture("IDLE")) EXCEPT !.x = -EnemyX]]

\* the Game of Game::run; a Game filled by a test with three entities, the
\* middle one a hit from death; a Game with a null entry
Configs ==
    { [entities |-> <<1, 2>>, hp2 |-> EnemyHp],
      [entities |-> <<3, 2, 1>>, hp2 |-> BulletDamage],
      [entities |-> <<1, NULL, 2>>, hp2 |-> EnemyHp] }

Init ==
    /\ textures = TestTextures
    /\ game = TestGame
    /\ \E c \in Configs : ent = InitEnt(c.hp2) /\ m_Entities = c.entities
    /\ bul = <<>>
    /\ aiming_left = FALSE
    /\ crashed = FALSE
    /\ last = NoOp
    /\ hist = [hp0 |-> [e \in EntIds |-> ent[e].hp]]

Frame(keys, f, mouse) == [keys |-> keys, f |-> f, mouse |-> mouse]

HasUAF(S) == \E k \in 1..Len(S.log) : S.log[k][1] = "UAF"

\* the outcomes of an operation: r0 when a read of a deleted bullet sees an
\* in-bounds x, r1 when it sees an out-of-bounds x; one outcome when no
\* deleted bullet is read
Outcomes(r0, r1) == IF HasUAF(r0) THEN {r0, r1} ELSE {r0}

GameOutcomes(r0, r1) == IF HasUAF(r0.S) THEN {r0, r1} ELSE {r0}

\* the input states of the frames of a game: no key, A or D held, the fire
\* key or the pointer button just pressed
GameFrames ==
    { Frame({}, FALSE, FALSE), Frame({"A"}, FALSE, FALSE), Frame({"D"}, FALSE, FALSE),
      Frame({}, TRUE, FALSE), Frame({}, FALSE, TRUE) }

\* one frame of Game::run: update(dt)
Update ==
    /\ ~crashed
    /\ \E in \in GameFrames, dt \in DtSet :
          /\ InBounds({p \in Players : \E i \in 1..Len(m_Entities) : m_Entities[i] = p},
                      in, dt, MaxBullets)
          /\ \E r \in GameOutcomes(
                        GameUpdate(Cur, m_Entities, in.keys, in.f, in.mouse, dt, FALSE),
                        GameUpdate(Cur, m_Entities, in.keys, in.f, in.mouse, dt, TRUE)) :
                /\ Commit(r.S, r.entities, Op("update", 0, 0, in.keys, in.f, in.mouse, dt, r.S))
                /\ UNCHANGED hist

\* one frame of Game::run: draw()
Draw ==
    /\ ~crashed
    /\ LET S == GameDraw(Cur, m_Entities, 1)
       IN  Commit(S, m_Entities, Op("draw", 0, 0, {}, FALSE, FALSE, 0, S)) /\ UNCHANGED hist

Next == Update \/ Draw

Spec == Init /\ [][Next]_vars

(* ------------------------------------------------------------------ *)
(* Entity scenario: one entity, TakeDamage called on it repeatedly     *)
(* ------------------------------------------------------------------ *)

HpSet == {1, 30, 50, 100}
DamageSet == {-100, -30, -5, 0, 5, 10, 30, 100}

InitEntity ==
    /\ textures = TestTextures
    /\ game = NoGame
    /\ \E hp \in HpSet :
          /\ ent = [e \in EntIds |-> NewEntity("Entity", hp, LoadTexture("IDLE"))]
          /\ hist = [hp0 |-> hp, calls |-> 0, cum |-> 0, flips |-> 0, after |-> 0,
                     prev |-> NewEntity("Entity", hp, LoadTexture("IDLE"))]
    /\ m_Entities = <<>>
    /\ bul = <<>>
    /\ aiming_left = FALSE
    /\ crashed = FALSE
    /\ last = NoOp

\* entity.TakeDamage(damage)
TakeDamageCall ==
    \E damage \in DamageSet :
        /\ hist.calls < MaxCalls
        /\ ent' = [ent EXCEPT ![1] = TakeDamage(@, damage)]
        /\ hist' = [hp0 |-> hist.hp0,
                    calls |-> hist.calls + 1,
                    cum |-> hist.cum + Abs(damage),
                    flips |-> hist.flips + (IF ent'[1].alive # ent[1].alive THEN 1 ELSE 0),
                    after |-> hist.after + (IF ent[1].alive THEN 0 ELSE 1),
                    prev |-> ent[1]]
        /\ last' = [NoOp EXCEPT !.op = "TakeDamage", !.a = 1, !.b = damage]
        /\ UNCHANGED <<bul, m_Entities, textures, aiming_left, crashed, game>>

SpecEntity == InitEntity /\ [][TakeDamageCall]_vars

(* ------------------------------------------------------------------ *)
(* Bullet scenario: one free bullet next to its shooter, a target      *)
(* placed around it, CheckCollision called on the bullet               *)
(* ------------------------------------------------------------------ *)

\* target coordinates that leave a gap of one, touch, and overlap
Around(lo, len, tlen) == {lo - tlen - 1, lo - tlen, lo, lo + len, lo + len + 1}

InitBullet ==
    /\ textures \in TextureTables
    /\ game = NoGame
    /\ \E parent \in {1, NULL}, hp \in {EnemyHp, BulletDamage} :
          LET shooter == NewPlayer(LoadTexture("IDLE"))
              target == NewEntity("Entity", hp, LoadTexture("IDLE"))
              b == [NewBullet(parent, BulletVelocity, FALSE)
                        EXCEPT !.x = SpawnPos(shooter).x, !.y = SpawnPos(shooter).y]
          IN  \E tx \in Around(b.x, b.w, target.w), ty \in Around(b.y, b.h, target.h) :
                /\ ent = [e \in EntIds |->
                            CASE e = 1 -> shooter
                              [] e = 2 -> [target EXCEPT !.x = tx, !.y = ty]
                              [] OTHER -> [target EXCEPT !.x = -EnemyX]]
                /\ bul = <<b>>
    /\ m_Entities = <<>>
    /\ aiming_left = FALSE
    /\ crashed = FALSE
    /\ last = NoOp
    /\ hist = [prev |-> [ent |-> ent, bul |-> bul]]

\* bullet.CheckCollision(other) with an entity, the bullet itself or null,
\* on a live bullet that no player's collection holds
BulletCheckCall ==
    /\ ~crashed
    /\ Len(bul) >= 1
    /\ bul[1].st = "live"
    /\ \A e \in EntIds : \A k \in 1..Len(ent[e].m_Bullets) : ent[e].m_Bullets[k] # 1
    /\ \E other \in EntIds \cup {-1, NULL} :
          LET S == BulletCheckCollision(Cur, 1, other)
          IN  /\ Commit(S, m_Entities, Op("BulletCheck", 1, other, {}, FALSE, FALSE, 0, S))
              /\ hist' = [prev |-> [ent |-> ent, bul |-> bul]]

SpecBullet == InitBullet /\ [][BulletCheckCall]_vars

\* bullet.CheckCollision(others) with a collection of entities, on a live
\* bullet that no player's collection holds
BulletCheckAllCall ==
    /\ ~crashed
    /\ Len(bul) >= 1
    /\ bul[1].st = "live"
    /\ \A e \in EntIds : \A k \in 1..Len(ent[e].m_Bullets) : ent[e].m_Bullets[k] # 1
    /\ \E others \in Colls :
          \E S \in {BulletCheckCollisionAll(Cur, 1, others, 1)} :
              /\ Commit(S, m_Entities, Op("BulletCheckAll", 1, others, {}, FALSE, FALSE, 0, S))
              /\ hist' = [prev |-> [ent |-> ent, bul |-> bul]]

SpecBulletAll == InitBullet /\ [][BulletCheckCall \/ BulletCheckAllCall]_vars

\* the game and the bullet scenario side by side
SpecOwnBullet == (Init \/ InitBullet) /\ [][Update \/ Draw \/ BulletCheckCall]_vars

(* ------------------------------------------------------------------ *)
(* Pruning scenario: a player that owns bullets on both sides of the    *)
(* bounds, OnUpdate called on it                                        *)
(* ------------------------------------------------------------------ *)

PruneXs == {-OutOfBounds - 1, -OutOfBounds, OutOfBounds, OutOfBounds + 1}

PruneFrames == { Frame({}, FALSE, FALSE), Frame({}, TRUE, FALSE) }

InitPrune ==
    /\ textures = TestTextures
    /\ game = NoGame
    /\ \E n \in 0..MaxOwned : \E xs \in [1..n -> PruneXs] :
          /\ bul = [k \in 1..n |->
                      [NewBullet(1, BulletVelocity, xs[k] < 0)
                          EXCEPT !.x = xs[k],
                                 !.y = SpawnPos(NewPlayer(LoadTexture("IDLE"))).y]]
          /\ ent = [e \in EntIds |->
                      IF e = 1
                      THEN [NewPlayer(LoadTexture("IDLE")) EXCEPT !.m_Bullets = [k \in 1..n |-> k]]
                      ELSE NewEntity("Entity", EnemyHp, LoadTexture("IDLE"))]
    /\ m_Entities = <<>>
    /\ aiming_left = FALSE
    /\ crashed = FALSE
    /\ last = NoOp
    /\ hist = [prev |-> [ent |-> ent, bul |-> bul]]

\* player.OnUpdate(dt)
PruneCall ==
    /\ ~crashed
    /\ \E in \in PruneFrames, dt \in DtSet :
          /\ InBounds({1}, in, dt, MaxOwned)
          /\ \E S \in Outcomes(PlayerOnUpdate(Cur, 1, in.keys, in.f, in.mouse, dt, FALSE),
                               PlayerOnUpdate(Cur, 1, in.keys, in.f, in.mouse, dt, TRUE)) :
                /\ Commit(S, m_Entities, Op("OnUpdate", 1, 0, in.keys, in.f, in.mouse, dt, S))
                /\ hist' = [prev |-> [ent |-> ent, bul |-> bul]]

SpecPrune == InitPrune /\ [][PruneCall]_vars

\* player.OnUpdate(dt) with dt > 0, no key held and no fire input
DrainCall ==
    /\ ~crashed
    /\ \E dt \in DtSet \ {0} :
          \E S \in Outcomes(PlayerOnUpdate(Cur, 1, {}, FALSE, FALSE, dt, FALSE),
                            PlayerOnUpdate(Cur, 1, {}, FALSE, FALSE, dt, TRUE)) :
              /\ Commit(S, m_Entities, Op("OnUpdate", 1, 0, {}, FALSE, FALSE, dt, S))
              /\ hist' = [prev |-> [ent |-> ent, bul |-> bul]]

\* the calls are repeated for as long as the process runs
SpecDrain == InitPrune /\ [][DrainCall]_vars /\ WF_vars(DrainCall)

(* ------------------------------------------------------------------ *)
(* Firing scenario: a player alone, keys and fire inputs, OnUpdate      *)
(* ------------------------------------------------------------------ *)

FirePositions == { [x |-> 0, y |-> 0], [x |-> 7, y |-> -3] }

FireKeySets == { {}, {"A"}, {"D"}, {"W"}, {"S"}, {"A", "W"}, {"A", "D"} }

FireFrames == { Frame(k, f, m) : k \in FireKeySets, f \in BOOLEAN, m \in BOOLEAN }

FireDts == {0, 4, 12}

InitFire ==
    /\ textures \in TextureTables
    /\ game = NoGame
    /\ \E pos \in FirePositions :
          ent = [e \in EntIds |->
                   IF e = 1
                   THEN [NewPlayer(LoadTexture("IDLE")) EXCEPT !.x = pos.x, !.y = pos.y]
                   ELSE NewEntity("Entity", EnemyHp, LoadTexture("IDLE"))]
    /\ bul = <<>>
    /\ m_Entities = <<>>
    /\ aiming_left = FALSE
    /\ crashed = FALSE
    /\ last = NoOp
    /\ hist = [n0 |-> 0, aimAt |-> <<>>]

\* player.OnUpdate(dt); hist keeps the number of bullets owned before the
\* call and, per bullet, the aiming flag at the moment it was fired
FireCall ==
    /\ ~crashed
    /\ \E in \in FireFrames, dt \in FireDts :
          /\ InBounds({1}, in, dt, MaxFired)
          /\ \E S \in Outcomes(PlayerOnUpdate(Cur, 1, in.keys, in.f, in.mouse, dt, FALSE),
                               PlayerOnUpdate(Cur, 1, in.keys, in.f, in.mouse, dt, TRUE)) :
                /\ Commit(S, m_Entities, Op("OnUpdate", 1, 0, in.keys, in.f, in.mouse, dt, S))
                /\ hist' = [n0 |-> Len(ent[1].m_Bullets),
                            aimAt |-> IF Len(S.bul) > Len(bul)
                                      THEN Append(hist.aimAt, S.aim)
                                      ELSE hist.aimAt]

SpecFire == InitFire /\ [][FireCall]_vars

(* ------------------------------------------------------------------ *)
(* Collision scenario: two entities with textures of their own, the    *)
(* second placed around the first, a third far away; CheckCollision    *)
(* called on them                                                       *)
(* ------------------------------------------------------------------ *)

InitCollide ==
    /\ textures \in TextureTables
    /\ game = NoGame
    /\ \E dead \in BOOLEAN :
          LET a == NewEntity("Entity", EnemyHp, LoadTexture("IDLE"))
              b == NewEntity("Entity", EnemyHp, LoadTexture("LEFT"))
          IN  \E bx \in Around(a.x, a.w, b.w), by \in Around(a.y, a.h, b.h) :
                ent = [e \in EntIds |->
                         CASE e = 1 -> IF dead THEN TakeDamage(a, EnemyHp) ELSE a
                           [] e = 2 -> [b EXCEPT !.x = bx, !.y = by]
                           [] OTHER -> [b EXCEPT !.x = -EnemyX]]
    /\ bul = <<>>
    /\ m_Entities = <<>>
    /\ aiming_left = FALSE
    /\ crashed = FALSE
    /\ last = NoOp
    /\ hist = [prev |-> [ent |-> ent, bul |-> bul]]

\* e.CheckCollision(other) with two entities or with e itself
EntityCheckCall ==
    /\ ~crashed
    /\ \E e \in EntIds, other \in EntIds :
          \E S \in {EntityCheckCollision(Cur, e, other)} :
              /\ Commit(S, m_Entities, Op("EntityCheck", e, other, {}, FALSE, FALSE, 0, S))
              /\ hist' = [prev |-> [ent |-> ent, bul |-> bul]]

\* e.CheckCollision(others) with a collection of entities
EntityCheckAllCall ==
    /\ ~crashed
    /\ \E e \in EntIds, others \in Colls :
          \E S \in {EntityCheckCollisionAll(Cur, e, others, 1)} :
              /\ Commit(S, m_Entities, Op("EntityCheckAll", e, others, {}, FALSE, FALSE, 0, S))
              /\ hist' = [prev |-> [ent |-> ent, bul |-> bul]]

SpecCollide == InitCollide /\ [][EntityCheckCall \/ EntityCheckAllCall]_vars

(* ------------------------------------------------------------------ *)
(* Movement scenario: a player alone, any combination of the four keys *)
(* held, OnUpdate                                                       *)
(* ------------------------------------------------------------------ *)

InitMove ==
    /\ textures \in TextureTables
    /\ game = NoGame
    /\ ent = [e \in EntIds |->
                IF e = 1
                THEN NewPlayer(LoadTexture("IDLE"))
                ELSE NewEntity("Entity", EnemyHp, LoadTexture("IDLE"))]
    /\ bul = <<>>
    /\ m_Entities = <<>>
    /\ aiming_left = FALSE
    /\ crashed = FALSE
    /\ last = NoOp
    /\ hist = [prev |-> [ent |-> ent, aim |-> aiming_left], calls |-> 0]

\* player.OnUpdate(dt) with the keys held and no fire input
MoveCall ==
    /\ ~crashed
    /\ hist.calls < MaxMoves
    /\ \E keys \in SUBSET Keys, dt \in DtSet :
          \E S \in Outcomes(PlayerOnUpdate(Cur, 1, keys, FALSE, FALSE, dt, FALSE),
                            PlayerOnUpdate(Cur, 1, keys, FALSE, FALSE, dt, TRUE)) :
              /\ Commit(S, m_Entities, Op("OnUpdate", 1, 0, keys, FALSE, FALSE, dt, S))
              /\ hist' = [prev |-> [ent |-> ent, aim |-> aiming_left],
                          calls |-> hist.calls + 1]

SpecMove == InitMove /\ [][MoveCall]_vars

(* ------------------------------------------------------------------ *)
(* Several players in one process: Players are constructed one after   *)
(* the other, OnUpdate is called on any of them                         *)
(* ------------------------------------------------------------------ *)

\* an entity slot in which nothing was constructed yet
NoEntity == NewEntity("None", 0, LoadTexture("IDLE"))

PlayersFrames ==
    { Frame(k, f, FALSE) : k \in {{}, {"A"}, {"D"}}, f \in BOOLEAN }

\* the process starts (the static aiming_left is false) and a first Player
\* is constructed
InitPlayers ==
    /\ textures = TestTextures
    /\ game = NoGame
    /\ ent = [e \in EntIds |-> IF e = 1 THEN NewPlayer(LoadTexture("IDLE")) ELSE NoEntity]
    /\ bul = <<>>
    /\ m_Entities = <<>>
    /\ aiming_left = FALSE
    /\ crashed = FALSE
    /\ last = NoOp
    /\ hist = [keyed |-> {}, fired |-> <<>>, calls |-> 0]

\* Player::Player for one more Player; the static flag is not touched
PlayerCtor ==
    /\ ~crashed
    /\ hist.calls < MaxSteps
    /\ \E e \in EntIds :
          /\ ent[e].kind = "None"
          /\ \A o \in EntIds : o < e => ent[o].kind # "None"
          /\ ent' = [ent EXCEPT ![e] = NewPlayer(LoadTexture("IDLE"))]
          /\ last' = [NoOp EXCEPT !.op = "Player", !.a = e]
    /\ hist' = [hist EXCEPT !.calls = @ + 1]
    /\ UNCHANGED <<bul, m_Entities, textures, aiming_left, crashed, game>>

\* p.OnUpdate(dt) on one of the players; hist keeps the players that held a
\* directional key in an update of their own and, per bullet, whether its
\* player had held none when it fired, and where it was spawned
PlayerUpdateCall ==
    /\ ~crashed
    /\ hist.calls < MaxSteps
    /\ \E p \in Players, in \in PlayersFrames, dt \in {0, 1} :
          /\ InBounds({p}, in, dt, MaxFired)
          /\ \E S \in Outcomes(PlayerOnUpdate(Cur, p, in.keys, in.f, in.mouse, dt, FALSE),
                               PlayerOnUpdate(Cur, p, in.keys, in.f, in.mouse, dt, TRUE)) :
                /\ Commit(S, m_Entities, Op("OnUpdate", p, 0, in.keys, in.f, in.mouse, dt, S))
                /\ hist' = [keyed |-> IF in.keys # {} THEN hist.keyed \cup {p} ELSE hist.keyed,
                            fired |-> IF Len(S.bul) > Len(bul)
                                      THEN Append(hist.fired,
                                                  [fresh |-> in.keys = {} /\ p \notin hist.keyed,
                                                   x0 |-> SpawnPos(S.ent[p]).x])
                                      ELSE hist.fired,
                            calls |-> hist.calls + 1]

SpecPlayers == InitPlayers /\ [][PlayerCtor \/ PlayerUpdateCall]_vars

(* ------------------------------------------------------------------ *)
(* Bullet movement scenario: one bullet constructed with a velocity    *)
(* and a direction flag, OnUpdate called on it                         *)
(* ------------------------------------------------------------------ *)

BulletVelocities == {0, 200, 300, 1000}

InitBulletMove ==
    /\ textures = TestTextures
    /\ game = NoGame
    /\ ent = [e \in EntIds |->
                IF e = 1
                THEN NewPlayer(LoadTexture("IDLE"))
                ELSE NewEntity("Entity", EnemyHp, LoadTexture("IDLE"))]
    /\ \E v \in BulletVelocities, flag \in BOOLEAN, pos \in FirePositions :
          bul = << [NewBullet(1, v, flag) EXCEPT !.x = pos.x, !.y = pos.y] >>
    /\ m_Entities = <<>>
    /\ aiming_left = FALSE
    /\ crashed = FALSE
    /\ last = NoOp
    /\ hist = [prev |-> bul[1], first |-> bul[1], calls |-> 0]

\* bullet.OnUpdate(dt)
BulletUpdateCall ==
    /\ ~crashed
    /\ hist.calls < MaxBulletUpdates
    /\ \E dt \in DtSet :
          /\ bul' = [bul EXCEPT ![1] = BulletOnUpdate(@, dt)]
          /\ last' = [NoOp EXCEPT !.op = "BulletUpdate", !.a = 1, !.dt = dt]
    /\ hist' = [prev |-> bul[1], first |-> hist.first, calls |-> hist.calls + 1]
    /\ UNCHANGED <<ent, m_Entities, textures, aiming_left, crashed, game>>

SpecBulletMove == InitBulletMove /\ [][BulletUpdateCall]_vars

(* ------------------------------------------------------------------ *)
(* Games whose player comes first in the collection and whose enemy    *)
(* is one hit from death                                               *)
(* ------------------------------------------------------------------ *)

PassConfigs ==
    { [entities |-> <<1, 2>>, hp2 |-> BulletDamage],
      [entities |-> <<1, 2, 3>>, hp2 |-> BulletDamage] }

InitPass ==
    /\ textures = TestTextures
    /\ game = TestGame
    /\ \E c \in PassConfigs : ent = InitEnt(c.hp2) /\ m_Entities = c.entities
    /\ bul = <<>>
    /\ aiming_left = FALSE
    /\ crashed = FALSE
    /\ last = NoOp
    /\ hist = [hp0 |-> [e \in EntIds |-> ent[e].hp]]

SpecPass == InitPass /\ [][Next]_vars

(* ------------------------------------------------------------------ *)
(* Games whose entities overlap: the second entity lies on the player  *)
(* or touches its right side; frames of the game and collision checks  *)
(* called on the player and on the second entity                       *)
(* ------------------------------------------------------------------ *)

OverlapConfigs == { <<1, 2>>, <<2, 1, 3>> }

InitOverlap ==
    /\ textures = TestTextures
    /\ game = TestGame
    /\ \E x2 \in {0, LoadTexture("IDLE").w} :
          ent = [InitEnt(EnemyHp) EXCEPT ![2].x = x2]
    /\ m_Entities \in OverlapConfigs
    /\ bul = <<>>
    /\ aiming_left = FALSE
    /\ crashed = FALSE
    /\ last = NoOp
    /\ hist = [hp0 |-> [e \in EntIds |-> ent[e].hp]]

\* one frame of the game: update(dt)
OverlapUpdate ==
    /\ ~crashed
    /\ \E in \in GameFrames, dt \in DtSet :
          /\ InBounds({p \in Players : \E i \in 1..Len(m_Entities) : m_Entities[i] = p},
                      in, dt, MaxOverlapBullets)
          /\ \E r \in GameOutcomes(
                        GameUpdate(Cur, m_Entities, in.keys, in.f, in.mouse, dt, FALSE),
                        GameUpdate(Cur, m_Entities, in.keys, in.f, in.mouse, dt, TRUE)) :
                /\ Commit(r.S, r.entities, Op("update", 0, 0, in.keys, in.f, in.mouse, dt, r.S))
                /\ UNCHANGED hist

\* e.CheckCollision(other) on the player or the second entity
OverlapCheckCall ==
    /\ ~crashed
    /\ \E e \in {1, 2}, other \in {1, 2} :
          \E S \in {EntityCheckCollision(Cur, e, other)} :
              /\ Commit(S, m_Entities, Op("EntityCheck", e, other, {}, FALSE, FALSE, 0, S))
              /\ UNCHANGED hist

\* e.CheckCollision(m_Entities) on the player or the second entity
OverlapCheckAllCall ==
    /\ ~crashed
    /\ \E e \in {1, 2} :
          \E S \in {EntityCheckCollisionAll(Cur, e, m_Entities, 1)} :
              /\ Commit(S, m_Entities, Op("EntityCheckAll", e, m_Entities, {}, FALSE, FALSE, 0, S))
              /\ UNCHANGED hist

SpecOverlap ==
    InitOverlap /\ [][OverlapUpdate \/ OverlapCheckCall \/ OverlapCheckAllCall]_vars

(* ------------------------------------------------------------------ *)
(* The Game of Game::run alone: the player, then the enemy, which is   *)
(* unhurt or has been hit three times                                  *)
(* ------------------------------------------------------------------ *)

InitRun ==
    /\ textures = TestTextures
    /\ game = GameRunWindow(TestGame)
    /\ \E hits \in {0, 3} :
          /\ ent = InitEnt(EnemyHp - hits * BulletDamage)
          /\ hist = [hp0 |-> [e \in EntIds |-> ent[e].hp]]
    /\ m_Entities = <<1, 2>>
    /\ bul = <<>>
    /\ aiming_left = FALSE
    /\ crashed = FALSE
    /\ last = NoOp

SpecRun == InitRun /\ [][Next]_vars

(* ------------------------------------------------------------------ *)
(* Window scenario: a Game is constructed by a caller that follows the *)
(* declaration Game(int width, int height, const char* title), then    *)
(* run() is called on it                                               *)
(* ------------------------------------------------------------------ *)

\* the widths and heights a caller asks for
Dims == {320, 480, 600, 640, 720, 800, 1024, 1280}

InitWindowScenario ==
    /\ textures = TestTextures
    /\ game = NoGame
    /\ ent = [e \in EntIds |-> NoEntity]
    /\ bul = <<>>
    /\ m_Entities = <<>>
    /\ aiming_left = FALSE
    /\ crashed = FALSE
    /\ last = NoOp
    /\ hist = [width |-> 0, height |-> 0]

\* Game game(width, height, title): the arguments are bound, in this order,
\* to the parameters of the definition
GameCtor ==
    /\ game = NoGame
    /\ \E width \in Dims, height \in Dims :
          /\ game' = GameGame(width, height)
          /\ last' = [NoOp EXCEPT !.op = "Game", !.a = width, !.b = height]
          /\ hist' = [width |-> width, height |-> height]
    /\ UNCHANGED <<ent, bul, m_Entities, textures, aiming_left, crashed>>

\* game.run() up to the loop: the window is opened, the player and the
\* enemy are created and pushed
GameRun ==
    /\ game # NoGame
    /\ game.window = NoWindow
    /\ game' = GameRunWindow(game)
    /\ ent' = InitEnt(EnemyHp)
    /\ m_Entities' = <<1, 2>>
    /\ last' = [NoOp EXCEPT !.op = "run"]
    /\ UNCHANGED <<bul, textures, aiming_left, crashed, hist>>

SpecWindow == InitWindowScenario /\ [][GameCtor \/ GameRun]_vars

----------------------------------------------------------------------------
(* Properties *)

Max(a, b) == IF a > b THEN a ELSE b
Min(a, b) == IF a < b THEN a ELSE b

\* the closed rectangles of a and b have a point in common
RectsMeet(a, b) ==
    /\ Max(a.x, b.x) <= Min(a.x + a.w, b.x + b.w)
    /\ Max(a.y, b.y) <= Min(a.y + a.h, b.y + b.h)

InColl(e) == \E i \in 1..Len(m_Entities) : m_Entities[i] = e

\* C1: after every Game.update that ran to its end, the collection holds
\* exactly the entities it held before that are alive after the frame, in
\* their old order; none of those left in it is dead.
C1_DeadRemovedOrderKept ==
    [][(last'.op = "update" /\ ~crashed')
        => LET post == ent'
           IN  /\ m_Entities' = SelectSeq(m_Entities, LAMBDA e : post[e].alive)
               /\ \A i \in 1..Len(m_Entities') : post[m_Entities'[i]].alive]_vars

\* an entity was hit in the last update, died of it and left the collection,
\* and an entity placed before it and one placed after it stayed
C1_Witness ==
    /\ last.op = "update"
    /\ ~crashed
    /\ \E i \in 1..Len(last.log) :
          /\ last.log[i][1] = "Hit"
          /\ ~ent[last.log[i][3]].alive
          /\ ~InColl(last.log[i][3])
    /\ m_Entities = <<3, 1>>

\* C2: Game.update on a collection with null entries runs to its end without
\* touching a null entry, and every non-null entity is updated exactly once.
C2_NullEntriesSkipped ==
    (last.op = "update" /\ InColl(NULL))
    => /\ ~crashed
       /\ \A i \in 1..Len(last.log) : last.log[i][1] # "NullDeref"
       /\ \A e \in EntIds :
             InColl(e) =>
                Cardinality({i \in 1..Len(last.log) :
                                last.log[i][1] = "Update" /\ last.log[i][2] = e}) = 1

\* C3: between operations a player's bullet collection holds only bullets
\* that were not destroyed, each at most once; a bullet destroyed by pruning
\* or by a hit has left the collection by the end of that operation.
C3_OnlyLiveBulletsOwned ==
    ~crashed
    => \A p \in EntIds :
          LET bs == ent[p].m_Bullets
          IN  /\ \A k \in 1..Len(bs) :
                    /\ bs[k] \in 1..Len(bul)
                    /\ bul[bs[k]].st = "live"
              /\ \A j, k \in 1..Len(bs) : bs[j] = bs[k] => j = k

\* one bullet was pruned, one was destroyed by a hit, one is still owned
C3_Witness ==
    /\ ~crashed
    /\ \E b1, b2 \in 1..Len(bul) :
          /\ bul[b1].st = "pruned"
          /\ bul[b2].st = "hit"
    /\ Len(ent[1].m_Bullets) >= 1

\* C7: Bullet.CheckCollision(other) with other neither the parent nor the
\* bullet itself: when the rectangles overlap or touch it takes 30 from
\* other's hp, destroys the bullet and returns true; when they are apart on
\* an axis it returns false and changes nothing.
C7_BulletHitOnContact ==
    (last.op = "BulletCheck"
        /\ last.b \notin {NULL, -last.a, hist.prev.bul[last.a].parent})
    => LET b == hist.prev.bul[last.a]
           o == hist.prev.ent[last.b]
       IN  IF RectsMeet(b, o)
           THEN /\ last.res = TRUE
                /\ ent[last.b].hp = o.hp - 30
                /\ ent[last.b].alive = (o.hp - 30 > 0)
                /\ \A e \in EntIds \ {last.b} : ent[e] = hist.prev.ent[e]
                /\ bul[last.a].st = "hit"
                /\ ~crashed
           ELSE /\ last.res = FALSE
                /\ ent = hist.prev.ent
                /\ bul = hist.prev.bul
                /\ ~crashed

\* a hit on a target whose left edge is exactly the bullet's right edge
C7_Witness ==
    /\ last.op = "BulletCheck"
    /\ last.b = 2
    /\ hist.prev.bul[1].parent # 2
    /\ hist.prev.ent[2].x = hist.prev.bul[1].x + hist.prev.bul[1].w
    /\ last.res = TRUE
    /\ ent[2].hp = hist.prev.ent[2].hp - 30
    /\ bul[1].st = "hit"

\* C8: Bullet.CheckCollision(other) with other the bullet's parent or the
\* bullet itself returns false, leaves other's hp alone and does not destroy
\* the bullet, also when the rectangles overlap; and whatever sequence of
\* Game.update calls ran, no bullet has hit its parent and a player whose
\* bullets are the only ones keeps the hp it was constructed with.
C8_NoHitOnParentOrSelf ==
    /\ (last.op = "BulletCheck"
           /\ (last.b = -last.a
                  \/ (last.b # NULL /\ last.b = hist.prev.bul[last.a].parent)))
       => /\ last.res = FALSE
          /\ ent = hist.prev.ent
          /\ bul = hist.prev.bul
          /\ bul[last.a].st = "live"
          /\ ~crashed
    /\ \A i \in 1..Len(last.log) :
          last.log[i][1] = "Hit" => bul[last.log[i][2]].parent # last.log[i][3]
    /\ \A p \in Players :
          (\A b \in 1..Len(bul) : bul[b].parent = p) => ent[p].hp = PlayerHp

\* the bullet was checked against its parent, whose rectangle it overlaps
C8_Witness ==
    /\ last.op = "BulletCheck"
    /\ last.b = 1
    /\ hist.prev.bul[1].parent = 1
    /\ RectsMeet(hist.prev.bul[1], hist.prev.ent[1])
    /\ last.res = FALSE
    /\ ent[1].hp = PlayerHp

\* C9: an entity is alive exactly while the damage it has taken is below its
\* starting hp (hp of exactly zero is dead), and once dead no later
\* TakeDamage makes it alive again.
C9_DeadAtZeroForGood ==
    /\ ent[1].hp = hist.hp0 - hist.cum
    /\ ent[1].alive = (hist.cum < hist.hp0)
    /\ hist.flips = (IF ent[1].alive THEN 0 ELSE 1)
    /\ hist.after > 0 => ~ent[1].alive

\* hp reached exactly zero, and TakeDamage was called again after the death
C9_Witness ==
    /\ ent[1].hp = 0
    /\ ~ent[1].alive
    /\ hist.after > 0
    /\ hist.flips = 1
    /\ hist.cum = hist.hp0

\* C10: TakeDamage(d) and TakeDamage(-d) have the same effect, for every
\* entity state: the hp drops by |d| either way.
C10_DamageSignIgnored ==
    last.op = "TakeDamage"
    => /\ ent[1] = TakeDamage(hist.prev, -last.b)
       /\ ent[1].hp = hist.prev.hp - Abs(last.b)

\* a negative amount reduced the hp of an entity
C10_Witness ==
    /\ last.op = "TakeDamage"
    /\ last.b < 0
    /\ ent[1].hp < hist.prev.hp
    /\ ent[1].hp = hist.prev.hp + last.b

\* number of Update calls bullet b received in the last operation
Updates(b) ==
    Cardinality({i \in 1..Len(last.log) : last.log[i][1] = "BUpdate" /\ last.log[i][2] = b})

\* x of bullet b at the prune step of the last OnUpdate: where it was before
\* the call, or where it was spawned in the call
XAtPrune(b) ==
    IF b <= Len(hist.prev.bul) THEN hist.prev.bul[b].x
    ELSE ent[1].x + ent[1].w \div 2

Owned(b) == \E k \in 1..Len(ent[1].m_Bullets) : ent[1].m_Bullets[k] = b

\* C4: in every Player.OnUpdate(dt), whatever the number and order of owned
\* bullets, each bullet with x > 5000 or x < -5000 at the prune step is
\* removed and destroyed and gets no Update, and each bullet with
\* -5000 <= x <= 5000 is kept and gets exactly one Update(dt).
C4_PruneByPosition ==
    last.op = "OnUpdate"
    => /\ ~crashed
       /\ \A b \in 1..Len(bul) :
             (b > Len(hist.prev.bul) \/ hist.prev.bul[b].st = "live")
             => IF XAtPrune(b) > 5000 \/ XAtPrune(b) < -5000
                THEN ~Owned(b) /\ bul[b].st = "pruned" /\ Updates(b) = 0
                ELSE Owned(b) /\ bul[b].st = "live" /\ Updates(b) = 1

\* C5: in every update with dt > 0 a bullet fired while the aiming flag was
\* left moves to a strictly smaller x and a bullet fired while it was right
\* to a strictly larger x, whatever the flag is by then.
C5_BulletKeepsDirection ==
    [][(last'.op = "OnUpdate" /\ last'.dt > 0 /\ ~crashed')
        => LET log == last'.log
               post == bul'
               aim == hist'.aimAt
               at == ent'[1].x + ent'[1].w \div 2
           IN  \A b \in 1..Len(post) :
                  (\E i \in 1..Len(log) : log[i][1] = "BUpdate" /\ log[i][2] = b)
                  => LET from == IF b <= Len(bul) THEN bul[b].x ELSE at
                     IN  IF aim[b] THEN post[b].x < from ELSE post[b].x > from]_vars

\* a bullet fired while aiming left has moved left in an update made after
\* the flag had turned right
C5_Witness ==
    /\ last.op = "OnUpdate"
    /\ last.dt > 0
    /\ ~aiming_left
    /\ \E b \in 1..Len(bul) :
          /\ hist.aimAt[b]
          /\ bul[b].st = "live"
          /\ Updates(b) = 1
          /\ bul[b].x < 0
          /\ \A i \in 1..Len(last.log) : last.log[i][1] # "Spawn"

\* C6: after a Player.OnUpdate(dt) with the fire key, the pointer button or
\* both just pressed, the player owns one bullet more than before, and that
\* bullet is at the player's position plus half the width and half the
\* height of the player's current texture.
C6_FireSpawnsAtCentre ==
    (last.op = "OnUpdate" /\ (last.f \/ last.mouse))
    => /\ ~crashed
       /\ Len(ent[1].m_Bullets) = hist.n0 + 1
       /\ Len(bul) >= 1
       /\ 2 * bul[Len(bul)].x = 2 * ent[1].x + ent[1].w
       /\ 2 * bul[Len(bul)].y = 2 * ent[1].y + ent[1].h

\* a and b are apart on the x axis or on the y axis
Separated(a, b) ==
    \/ a.x + a.w < b.x
    \/ b.x + b.w < a.x
    \/ a.y + a.h < b.y
    \/ b.y + b.h < a.y

\* C11: for distinct entities A and B whose boxes are strictly separated on
\* the x axis or on the y axis, A.CheckCollision(B) is false, in whichever
\* direction the call is made, and nothing is logged or changed.
C11_SeparatedNeverCollide ==
    (last.op = "EntityCheck" /\ last.a # last.b
        /\ Separated(hist.prev.ent[last.a], hist.prev.ent[last.b]))
    => /\ last.res = FALSE
       /\ last.log = <<>>
       /\ ent = hist.prev.ent
       /\ ~crashed
       /\ EntityCheckCollision(Cur, last.b, last.a).res = FALSE

\* the second entity, one unit below the first with overlapping x ranges,
\* was checked against the first
C11_Witness ==
    /\ last.op = "EntityCheck"
    /\ last.a = 2
    /\ last.b = 1
    /\ ent[2].y = ent[1].y + ent[1].h + 1
    /\ ent[2].x = ent[1].x
    /\ last.res = FALSE

\* C12: for distinct entities A and B whose boxes overlap on both axes,
\* A.CheckCollision(B) is true; boxes that only touch, at any of the four
\* sides, count as overlapping.
C12_TouchingCollides ==
    (last.op = "EntityCheck" /\ last.a # last.b)
    => LET a == hist.prev.ent[last.a]
           b == hist.prev.ent[last.b]
       IN  /\ (/\ b.x <= a.x + a.w
               /\ a.x <= b.x + b.w
               /\ b.y <= a.y + a.h
               /\ a.y <= b.y + b.h) => last.res = TRUE
           /\ (b.x = a.x + a.w /\ b.y = a.y) => last.res = TRUE
           /\ (b.x + b.w = a.x /\ b.y = a.y) => last.res = TRUE
           /\ (b.y = a.y + a.h /\ b.x = a.x) => last.res = TRUE
           /\ (b.y + b.h = a.y /\ b.x = a.x) => last.res = TRUE

\* the first entity was checked against the second, whose left edge is the
\* first one's right edge
C12_Witness ==
    /\ last.op = "EntityCheck"
    /\ last.a = 1
    /\ last.b = 2
    /\ ent[2].x = ent[1].x + ent[1].w
    /\ ent[2].y = ent[1].y
    /\ last.res = TRUE

\* C13: E.CheckCollision(E) is false for an entity in any state, alive or
\* dead, and E.CheckCollision(collection) is false when no element of the
\* collection other than E itself overlaps E.
C13_NoSelfCollision ==
    /\ (last.op = "EntityCheck" /\ last.a = last.b)
       => /\ last.res = FALSE
          /\ last.log = <<>>
          /\ ~crashed
    /\ (last.op = "EntityCheckAll"
           /\ \A i \in 1..Len(last.b) :
                 last.b[i] # last.a
                 => Separated(hist.prev.ent[last.a], hist.prev.ent[last.b[i]]))
       => /\ last.res = FALSE
          /\ last.log = <<>>
          /\ ~crashed

\* the dead entity was checked against a collection that holds the entity
\* itself and an entity away from it
C13_Witness ==
    /\ last.op = "EntityCheckAll"
    /\ last.a = 1
    /\ ~ent[1].alive
    /\ last.b = <<1, 3>>
    /\ last.res = FALSE

\* C14: after Player.OnUpdate(dt) with only A held x has decreased by
\* exactly 300*dt, with only D x has increased by 300*dt, with only W y has
\* decreased by 300*dt, with only S y has increased by 300*dt.
C14_MovesAt300 ==
    last.op = "OnUpdate"
    => LET p == hist.prev.ent[1]
           d == Mul(300, last.dt)
       IN  /\ last.keys = {"A"} => ent[1].x = p.x - d /\ ent[1].y = p.y
           /\ last.keys = {"D"} => ent[1].x = p.x + d /\ ent[1].y = p.y
           /\ last.keys = {"W"} => ent[1].y = p.y - d /\ ent[1].x = p.x
           /\ last.keys = {"S"} => ent[1].y = p.y + d /\ ent[1].x = p.x

\* C15: after Player.OnUpdate(dt) with any combination of A, D, W, S held,
\* the aiming flag is left when A is held and none of D, W, S, right when
\* any of D, W, S is held, and unchanged when no key is held; the texture
\* is that of the last held key in the order A, D, W, S; the position has
\* changed by the sum of the displacements of the held keys.
C15_HeldKeysCombine ==
    last.op = "OnUpdate"
    => LET p == hist.prev.ent[1]
           k == last.keys
           d == Mul(p.vel, last.dt)
           tex == IF "S" \in k THEN textures["IDLE"]
                  ELSE IF "W" \in k THEN textures["UP"]
                  ELSE IF "D" \in k THEN textures["RIGHT"]
                  ELSE IF "A" \in k THEN textures["LEFT"]
                  ELSE [w |-> p.w, h |-> p.h]
       IN  /\ aiming_left = IF k \cap {"D", "W", "S"} # {} THEN FALSE
                            ELSE IF "A" \in k THEN TRUE
                            ELSE hist.prev.aim
           /\ ent[1].w = tex.w
           /\ ent[1].h = tex.h
           /\ ent[1].x = p.x + (IF "D" \in k THEN d ELSE 0) - (IF "A" \in k THEN d ELSE 0)
           /\ ent[1].y = p.y + (IF "S" \in k THEN d ELSE 0) - (IF "W" \in k THEN d ELSE 0)
           /\ ~crashed

\* A and W were held together while the player aimed left: it moved left
\* and up, shows the UP texture and aims right
C15_Witness ==
    /\ last.op = "OnUpdate"
    /\ last.keys = {"A", "W"}
    /\ last.dt > 0
    /\ hist.prev.aim
    /\ ~aiming_left
    /\ ent[1].x < hist.prev.ent[1].x
    /\ ent[1].y < hist.prev.ent[1].y
    /\ ent[1].w = textures["UP"].w
    /\ textures["UP"].w # textures["LEFT"].w

\* C16: every newly constructed Player aims right: a bullet fired by a
\* Player that has held no directional key in any update of its own is
\* fired to the right and is never left of where it was spawned, whatever
\* the Players constructed before it did.
C16_NewPlayerAimsRight ==
    \A b \in 1..Len(bul) :
        (hist.fired[b].fresh /\ bul[b].st = "live")
        => /\ ~bul[b].positiveXdirection
           /\ bul[b].x >= hist.fired[b].x0

FirstQualifying(b, es, others) ==
    LET Q == {i \in 1..Len(others) :
                 others[i] # b.parent /\ RectsMeet(b, es[others[i]])}
    IN  IF Q = {} THEN 0 ELSE CHOOSE i \in Q : \A j \in Q : i <= j

\* C18: Bullet.CheckCollision(collection) stops at the first element, in
\* collection order, that overlaps and is not the parent: that element
\* takes 30 damage once, every other entity is left as it was, also later
\* elements that overlap, and true is returned; when no element qualifies
\* it returns false and nothing is damaged.
C18_FirstCollisionOnly ==
    last.op = "BulletCheckAll"
    => LET q == FirstQualifying(hist.prev.bul[1], hist.prev.ent, last.b)
       IN  IF q = 0
           THEN /\ last.res = FALSE
                /\ ent = hist.prev.ent
                /\ bul = hist.prev.bul
                /\ ~crashed
           ELSE /\ last.res = TRUE
                /\ ent[last.b[q]].hp = hist.prev.ent[last.b[q]].hp - 30
                /\ \A e \in EntIds \ {last.b[q]} : ent[e] = hist.prev.ent[e]
                /\ bul[1].st = "hit"
                /\ ~crashed

\* the bullet without parent met the target first and the shooter second,
\* both in contact with it: the target was hit, the shooter was not
C18_Witness ==
    /\ last.op = "BulletCheckAll"
    /\ last.b = <<2, 1>>
    /\ RectsMeet(hist.prev.bul[1], hist.prev.ent[1])
    /\ RectsMeet(hist.prev.bul[1], hist.prev.ent[2])
    /\ hist.prev.bul[1].parent = NULL
    /\ last.res = TRUE
    /\ ent[2].hp = hist.prev.ent[2].hp - 30
    /\ ent[1].hp = PlayerHp

\* the bullets of player p that its own update of the last operation left
\* in its collection, in order: those it called Update on
LeftByOwnUpdate(p) ==
    LET evs == SelectSeq(last.log, LAMBDA ev : ev[1] = "BUpdate" /\ bul[ev[2]].parent = p)
    IN  [i \in 1..Len(evs) |-> evs[i][2]]

\* the collision check of bullet b in the last operation returned true
CheckWasTrue(b) ==
    \E j \in 1..Len(last.log) : last.log[j][1] = "Hit" /\ last.log[j][2] = b

\* C19: after a Game.update that ran to its end, each player of the
\* collection owns exactly the bullets left by its own update of this
\* cycle whose check against the whole collection returned false, in the
\* same order; each of those bullets was checked once, against the whole
\* collection, and each bullet whose check returned true is gone.
C19_BulletsFilteredByCheck ==
    (last.op = "update" /\ ~crashed)
    => \A p \in Players :
          InColl(p)
          => /\ ent[p].m_Bullets =
                   SelectSeq(LeftByOwnUpdate(p), LAMBDA b : ~CheckWasTrue(b))
             /\ \A i \in 1..Len(LeftByOwnUpdate(p)) :
                   /\ Cardinality({j \in 1..Len(last.log) :
                                     /\ last.log[j][1] = "BCheck"
                                     /\ last.log[j][2] = LeftByOwnUpdate(p)[i]}) = 1
                   /\ CheckWasTrue(LeftByOwnUpdate(p)[i])
                      => bul[LeftByOwnUpdate(p)[i]].st = "hit"

\* the player's update left three bullets, the check of the first returned
\* true and the player owns the other two, in order
C19_Witness ==
    /\ last.op = "update"
    /\ ~crashed
    /\ LeftByOwnUpdate(1) = <<1, 2, 3>>
    /\ CheckWasTrue(1)
    /\ ent[1].m_Bullets = <<2, 3>>

\* C20: Game.update(dt) calls Update(dt), with the dt it was given, exactly
\* once on every non-null entity of the collection and calls that entity's
\* CheckCollision exactly once with the entire collection, null slots
\* included, visiting the entities in collection order.
C20_EveryEntityUpdatedAndChecked ==
    [][(last'.op = "update")
        => LET log == last'.log
               dt == last'.dt
               visited == SelectSeq(log, LAMBDA ev : ev[1] = "Update")
               present == SelectSeq(m_Entities, LAMBDA e : e # NULL)
           IN  /\ Len(visited) = Len(present)
               /\ \A i \in 1..Len(visited) :
                     /\ visited[i][2] = present[i]
                     /\ visited[i][3] = dt
               /\ \A i \in 1..Len(present) :
                     Cardinality({j \in 1..Len(log) :
                                     /\ log[j][1] = "Check"
                                     /\ log[j][2] = present[i]
                                     /\ log[j][3] = Len(m_Entities)}) = 1]_vars

\* C21: a Game.draw on a collection of entities calls Draw once on every
\* entity, in collection order, and right after a player's Draw once on
\* every bullet that player owns, in the order of its collection; it
\* changes no entity, no bullet and not the collection.
C21_DrawVisitsAllOnce ==
    [][(last'.op = "draw" /\ \A i \in 1..Len(m_Entities) : m_Entities[i] # NULL)
        => LET log == last'.log
               pre == ent
               draws == SelectSeq(log, LAMBDA ev : ev[1] = "Draw")
           IN  /\ ~crashed'
               /\ ent' = ent /\ bul' = bul /\ m_Entities' = m_Entities
               /\ [i \in 1..Len(draws) |-> draws[i][2]] = m_Entities
               /\ \A i \in 1..Len(m_Entities) :
                     LET own == SelectSeq(log, LAMBDA ev : /\ ev[1] = "BDraw"
                                                          /\ bul[ev[2]].parent = m_Entities[i])
                     IN  [k \in 1..Len(own) |-> own[k][2]] = pre[m_Entities[i]].m_Bullets
               /\ \A j \in 1..Len(log) :
                     log[j][1] = "BDraw"
                     => \E d \in 1..(j - 1) :
                           /\ log[d][1] = "Draw"
                           /\ log[d][2] = bul[log[j][2]].parent
                           /\ \A m \in (d + 1)..(j - 1) : log[m][1] = "BDraw"]_vars

\* a draw of three entities, the player last and owning two bullets
C21_Witness ==
    /\ last.op = "draw"
    /\ ~crashed
    /\ m_Entities = <<3, 2, 1>>
    /\ Len(ent[1].m_Bullets) = 2
    /\ Len(last.log) = 5

\* C22: under repeated Player.OnUpdate calls with dt > 0 and no fire input
\* every owned bullet is eventually removed and the player's bullet
\* collection becomes and stays empty.  A run in which the calls have come
\* to an end for good while a bullet is still owned refutes it, so it is
\* stated on the states after which no further call can happen, which are
\* those in which the process has ended: in them the collection is empty.
C22_BulletsEventuallyGone ==
    crashed => Len(ent[1].m_Bullets) = 0

\* the events of a log that read or call a bullet
BulletTags ==
    {"BCheck", "Hit", "Spawn", "Prune", "Keep", "UAF", "PastEnd", "DoubleDelete",
     "BUpdate", "BDraw"}

Mentions(ev, b) == ev[1] \in BulletTags /\ ev[2] = b

\* C23: once a bullet's CheckCollision has returned true the bullet is never
\* read or called again.  In every step of a game, a bullet destroyed by a
\* collision is owned by nobody afterwards; if it was destroyed in this step
\* its "Hit" is the last event of the step that touches it, and if it was
\* destroyed before, no event of the step (update or draw) touches it.
C23_HitBulletNeverTouched ==
    [][\A b \in 1..Len(bul') :
          bul'[b].st = "hit" =>
             /\ \A e \in EntIds : \A k \in 1..Len(ent'[e].m_Bullets) :
                    ent'[e].m_Bullets[k] # b
             /\ IF b <= Len(bul) /\ bul[b].st = "hit"
                THEN \A j \in 1..Len(last'.log) : ~Mentions(last'.log[j], b)
                ELSE \E k \in 1..Len(last'.log) :
                        /\ last'.log[k][1] = "Hit" /\ last'.log[k][2] = b
                        /\ \A j \in (k + 1)..Len(last'.log) :
                              ~Mentions(last'.log[j], b)]_vars

\* an update that spawned and updated a bullet after another bullet had been
\* destroyed by a collision in an earlier update
C23_Witness ==
    /\ last.op = "update" /\ ~crashed
    /\ \E b \in 1..Len(bul) :
          /\ bul[b].st = "hit"
          /\ \A j \in 1..Len(last.log) : ~Mentions(last.log[j], b)
    /\ \E j \in 1..Len(last.log) : last.log[j][1] = "BUpdate"
    /\ \E j \in 1..Len(last.log) : last.log[j][1] = "BCheck"

\* the entities named by the events of a log that carry the given tag
RECURSIVE Tagged(_, _)
Tagged(log, tag) ==
    IF log = <<>> THEN <<>>
    ELSE (IF Head(log)[1] = tag THEN <<Head(log)[2]>> ELSE <<>>) \o Tagged(Tail(log), tag)

IsPrefix(a, b) == Len(a) <= Len(b) /\ SubSeq(b, 1, Len(a)) = a

\* C24: during the per-entity pass of Game.update the entity collection is
\* unchanged in membership and order, and an entity killed earlier in the
\* pass is still visited and is removed only by the filter after the pass.
\* In every update step the entities updated and the entities checked are,
\* in order, the non-null entries of the collection as it was before the
\* step (all of them when the update runs to its end); every collision check
\* of the step is handed a collection of the length it had before the step;
\* and the collection after the step is the one before the step without the
\* entities that are dead, or the same one if the update did not end.
C24_CollectionFixedDuringPass ==
    [][last'.op = "update" =>
          LET visit == SelectSeq(m_Entities, LAMBDA e : e # NULL)
          IN  /\ IsPrefix(Tagged(last'.log, "Update"), visit)
              /\ IsPrefix(Tagged(last'.log, "Check"), visit)
              /\ \A j \in 1..Len(last'.log) :
                    last'.log[j][1] \in {"Check", "BCheck"} =>
                        last'.log[j][3] = Len(m_Entities)
              /\ IF crashed'
                 THEN m_Entities' = m_Entities
                 ELSE /\ Tagged(last'.log, "Update") = visit
                      /\ Tagged(last'.log, "Check") = visit
                      /\ m_Entities' = SelectSeq(m_Entities, LAMBDA e : ent'[e].alive)]_vars

\* an update in which a bullet killed an entity that was updated and checked
\* later in the same pass and is gone from the collection afterwards
C24_Witness ==
    /\ last.op = "update" /\ ~crashed
    /\ \E k \in 1..Len(last.log) :
          /\ last.log[k][1] = "Hit"
          /\ ~ent[last.log[k][3]].alive
          /\ \E j \in (k + 1)..Len(last.log) :
                last.log[j][1] = "Update" /\ last.log[j][2] = last.log[k][3]
          /\ \E j \in (k + 1)..Len(last.log) :
                last.log[j][1] = "Check" /\ last.log[j][2] = last.log[k][3]
          /\ \A i \in 1..Len(m_Entities) : m_Entities[i] # last.log[k][3]

\* no bullet has been destroyed by a collision so far
NoBulletCollided(bs) == \A b \in 1..Len(bs) : bs[b].st # "hit"

\* C25: the collision check of a plain Entity or a Player, in its single and
\* in its collection form, changes no entity's hit points, aliveness or
\* position, whatever it returns; and as long as no bullet has collided in
\* the updates of a game every entity's hit points are the ones it started
\* with, even while entities overlap.
C25_GenericCheckChangesNothing ==
    [][/\ last'.op \in {"EntityCheck", "EntityCheckAll"} =>
              /\ ~crashed'
              /\ \A e \in EntIds :
                    /\ ent'[e].hp = ent[e].hp
                    /\ ent'[e].alive = ent[e].alive
                    /\ ent'[e].x = ent[e].x
                    /\ ent'[e].y = ent[e].y
       /\ NoBulletCollided(bul') =>
              \A e \in EntIds : ent'[e].hp = hist'.hp0[e] /\ ent'[e].alive]_vars

\* an update in which the player and the second entity were found
\* overlapping, after a collection check that returned true, with a bullet
\* in flight and no bullet collision so far
C25_Witness ==
    /\ last.op = "update" /\ ~crashed
    /\ NoBulletCollided(bul)
    /\ Len(ent[1].m_Bullets) = 1
    /\ \E j \in 1..Len(last.log) : last.log[j] = <<"HitLog", 1, 2>>
    /\ \E j \in 1..Len(last.log) : last.log[j] = <<"HitLog", 2, 1>>
    /\ ent[2].hp = EnemyHp /\ ent[1].hp = PlayerHp

\* C26: Game.run opens the display with the width and the height that were
\* passed to the constructor as its first and second argument.
C26_WindowAsDeclared ==
    game.window # NoWindow => game.window = InitWindow(hist.width, hist.height)

\* the bullets the iterations of the prune loop of the last call found
\* alive in the slot they read, in order
Examined ==
    LET its == SelectSeq(last.log, LAMBDA ev : ev[1] \in {"Keep", "Prune"})
    IN  [k \in 1..Len(its) |-> its[k][2]]

\* C27: the prune loop of Player.OnUpdate examines every bullet that was in
\* the collection when the loop started exactly once, in order, and reads
\* neither a bullet it has destroyed nor a slot beyond the current end of
\* the collection, whatever the number and arrangement of out-of-bounds
\* bullets.
C27_PruneLoopVisitsEachOnce ==
    last.op = "OnUpdate"
    => /\ Examined = hist.prev.ent[1].m_Bullets \o Tagged(last.log, "Spawn")
       /\ \A j \in 1..Len(last.log) :
             last.log[j][1] \notin {"UAF", "PastEnd", "DoubleDelete"}

\* the hit points the entities 1..n have lost since the start, over the heap es
RECURSIVE Lost(_, _)
Lost(es, n) == IF n = 0 THEN 0 ELSE (hist.hp0[n] - es[n].hp) + Lost(es, n - 1)

\* the bullets of the heap bs that a collision has consumed
Consumed(bs) == {b \in 1..Len(bs) : bs[b].st = "hit"}

\* the events of a log in which bullet b hit an entity
HitsOf(log, b) == {j \in 1..Len(log) : log[j][1] = "Hit" /\ log[j][2] = b}

\* C28: damage conservation.  After every step of a game the hit points
\* lost by all entities since the start add up to 30 times the number of
\* bullets consumed by a collision.  A bullet hits in at most one event of a
\* step, exactly when the step consumes it; a bullet that was consumed or
\* pruned before the step hits nothing in it and stays as it was; and the
\* hit points an entity loses in a step are 30 times the hits on it.
C28_DamageConservation ==
    [][/\ Lost(ent', Len(ent')) = BulletDamage * Cardinality(Consumed(bul'))
       /\ \A b \in 1..Len(bul') :
             /\ Cardinality(HitsOf(last'.log, b)) <= 1
             /\ HitsOf(last'.log, b) # {}
                   <=> /\ bul'[b].st = "hit"
                       /\ b <= Len(bul) => bul[b].st = "live"
             /\ (b <= Len(bul) /\ bul[b].st # "live") => bul'[b].st = bul[b].st
             /\ bul'[b].st = "pruned" => HitsOf(last'.log, b) = {}
       /\ \A e \in EntIds :
             ent[e].hp - ent'[e].hp =
                BulletDamage * Cardinality({j \in 1..Len(last'.log) :
                                   last'.log[j][1] = "Hit" /\ last'.log[j][3] = e})]_vars

\* two bullets were consumed by the same entity, which lost 60 hit points,
\* and a third bullet was pruned out of bounds
C28_Witness ==
    /\ ~crashed
    /\ Cardinality(Consumed(bul)) = 2
    /\ \E b \in 1..Len(bul) : bul[b].st = "pruned"
    /\ \E e \in EntIds : hist.hp0[e] - ent[e].hp = 2 * BulletDamage

\* C29: in the Game built by Game.run, one Player then one Enemy, after any
\* sequence of frames the Player has the hit points it started with, is
\* alive, and is the first element of the entity collection.
C29_PlayerUnharmedAndFirst ==
    /\ ent[1].hp = PlayerHp
    /\ ent[1].alive
    /\ Len(m_Entities) >= 1
    /\ m_Entities[1] = 1

\* the update in which a bullet of the player killed the enemy, which was
\* removed from the collection
C29_Witness ==
    /\ last.op = "update" /\ ~crashed
    /\ m_Entities = <<1>>
    /\ ~ent[2].alive
    /\ \E j \in 1..Len(last.log) : last.log[j][1] = "Hit" /\ last.log[j][3] = 2

\* C30: the collision test of Entity is symmetric: for distinct entities A
\* and B, in any positions and with any texture sizes, A.CheckCollision(B)
\* returns what B.CheckCollision(A) returns.
C30_CollisionSymmetric ==
    (last.op = "EntityCheck" /\ last.a # last.b)
    => last.res = EntityCheckCollision(Cur, last.b, last.a).res

\* the smaller entity, one unit short of touching the left side of the
\* larger one, was checked against it
C30_Witness ==
    /\ last.op = "EntityCheck"
    /\ last.a = 2
    /\ last.b = 1
    /\ ent[1].w # ent[2].w
    /\ ent[2].x + ent[2].w + 1 = ent[1].x
    /\ ent[2].y = ent[1].y
    /\ last.res = FALSE

====
